---- MODULE Spec2Model ----
(***************************************************************************)
(* kban: a single-board kanban server.  Every mutating HTTP handler of     *)
(* main.go is one load-mutate-save cycle on the single S3 object           *)
(* board.json.  The model keeps the object, the wall clock read by         *)
(* generateID, and the request that finished last.                         *)
(*                                                                         *)
(* Spec and SpecLong serve the requests one after the other, each handler  *)
(* one action.  Conc lets the handlers of two goroutines overlap: a        *)
(* handler then takes one step per store operation (the GetObject of       *)
(* LoadBoard, the PutObject of SaveBoard) and one for the clock reading of *)
(* generateID, and keeps its decoded request and the board it loaded.      *)
(*                                                                         *)
(* Tampered adds a writer of the bucket that is not the server, RoundTrip  *)
(* starts from the documents such a writer may have stored, AnyStatus      *)
(* sends status strings that name no column, ConcMoves overlaps requests   *)
(* on a stored column of two cards, and ConcFair states what the scheduler *)
(* and the store timeouts guarantee.                                       *)
(*                                                                         *)
(* Time: the only assumption is that the wall clock reads later after a    *)
(* PutObject was acknowledged than before it was sent.                     *)
(***************************************************************************)
EXTENDS Integers, Sequences, FiniteSets, TLC

\* ---------------------------------------------------------------- bounds
\* The board never grows beyond MaxCards cards (POST is not issued beyond).
MaxCards == 3
\* The wall clock is observed up to the reading MaxClock; it advances while
\* a PutObject is sent and acknowledged.
MaxClock == 5
\* The same, for the longer runs of SpecLong.
MaxClockLong == 6

\* The same, for the runs in which requests overlap.
MaxClockConc == 3
\* The same, for the runs in which requests overlap on a board of two cards
\* stored at the readings 1 and 2.
MaxClockMoves == 5
\* The largest number of cards in a document that another program stored.
MaxDocLen == 2

\* ---------------------------------------------------------------- inputs
\* Goroutines of the HTTP server that may run handlers concurrently.
Procs == {1, 2}
\* Status strings sent by clients.
Statuses == {"ToDo", "Doing"}
\* Requested positions: unvalidated, may be negative or beyond the column.
ReqPositions == -1 .. MaxCards
\* The id field of a request body (the handlers never read it).
BodyIds == {"0"}

\* ------------------------------------------------------------ data model
\* type Card struct
Card(id, title, description, status, position) ==
    [id |-> id, title |-> title, description |-> description,
     status |-> status, position |-> position]

\* Well-formed JSON bodies of POST /api/card, decoded into a Card; their
\* position is a value the handler never computes.
PostBodies ==
    {Card(i, "t1", "d1", s, -1) : i \in BodyIds, s \in Statuses}

\* Well-formed JSON bodies of PUT /api/card/{id}, decoded into a Card.
PutBodies ==
    {Card(i, "t2", "d2", s, p) : i \in BodyIds, s \in Statuses, p \in ReqPositions}

\* The zero Card, used for requests that carry no body.
NoBody == Card("", "", "", "", 0)

\* Mutant of MarshalCard: title and description under each other's key.
MarshalCardSwapped(c) == <<c.id, c.description, c.title, c.status, c.position>>

\* json.Marshal of a Board: the cards array, each card its five fields in
\* struct order.
MarshalCard(c) == <<c.id, c.title, c.description, c.status, c.position>>
Marshal(cards) == [i \in 1 .. Len(cards) |-> MarshalCard(cards[i])]

\* json.Unmarshal of a stored document into a Board.
UnmarshalCard(t) == Card(t[1], t[2], t[3], t[4], t[5])
Unmarshal(body) == [i \in 1 .. Len(body) |-> UnmarshalCard(body[i])]

\* The object board.json: absent, or a JSON document.
Absent == [kind |-> "absent", body |-> <<>>]
Document(body) == [kind |-> "json", body |-> body]

\* The object holding bytes that are not the JSON of a Board, put there by
\* something other than SaveBoard.
Garbage == [kind |-> "garbage", body |-> <<>>]

\* Mutant of UnmarshalFails: a document that does not parse is taken for the
\* empty board.
UnmarshalFallsBack(obj) == FALSE

\* LoadBoard: json.Unmarshal of the bytes read returns an error.
UnmarshalFails(obj) == obj.kind = "garbage"

\* LoadBoard on a successful GetObject or a NoSuchKey answer.
LoadBoard(obj) == IF obj.kind = "absent" THEN <<>> ELSE Unmarshal(obj.body)

\* Mutant of SaveBoard: the stored cards the handler did not load are kept.
SaveBoardMerging(obj, cards) ==
    Document(Marshal(cards)
             \o SelectSeq(obj.body,
                          LAMBDA t : \A i \in 1 .. Len(cards) : cards[i].id # t[1]))

\* Mutant of SaveBoard: the marshalled board is appended to the stored cards.
SaveBoardAppending(obj, cards) == Document(obj.body \o Marshal(cards))

\* SaveBoard: PutObject overwrites the whole object with the marshalled board.
SaveBoard(obj, cards) == Document(Marshal(cards))

\* Mutant of generateID: the reading is taken in a unit a thousand times
\* coarser.
generateIDCoarse(clock) == ToString(clock \div 1000)

\* generateID: the decimal rendering of the wall-clock reading.
generateID(clock) == ToString(clock)

\* ------------------------------------------------------------- algorithms
Max(S) == CHOOSE x \in S : \A y \in S : y <= x

\* Mutant of MaxPos: the status test of the loop is dropped.
MaxPosAnyStatus(cards, status) ==
    Max({-1} \cup {cards[i].position : i \in 1 .. Len(cards)})

\* POST handler: maxPos over the cards of the new card's status, from -1.
MaxPos(cards, status) ==
    Max({-1} \cup {cards[i].position :
                     i \in {j \in 1 .. Len(cards) : cards[j].status = status}})

\* Mutant of CreateCard: the new card takes the largest position of its
\* status instead of the one after it.
CreateCardAtMax(cards, card, id) ==
    Append(cards, [card EXCEPT !.id = id,
                               !.position = Max({0, MaxPos(cards, card.status)})])

\* POST handler: id and position overwritten, card appended.
CreateCard(cards, card, id) ==
    Append(cards, [card EXCEPT !.id = id, !.position = MaxPos(cards, card.status) + 1])

\* findCardIndex, zero-based, -1 when absent.
findCardIndex(cards, id) ==
    IF \E i \in 1 .. Len(cards) : cards[i].id = id
    THEN (CHOOSE i \in 1 .. Len(cards) :
            /\ cards[i].id = id
            /\ \A j \in 1 .. i - 1 : cards[j].id # id) - 1
    ELSE -1

\* PUT handler: the field-replacement loop on the first card with the id.
ReplaceFields(cards, id, update) ==
    LET i == findCardIndex(cards, id) + 1
    IN  [cards EXCEPT ![i] = Card(cards[i].id, update.title, update.description,
                                  update.status, update.position)]

\* Mutant of NeedsReorder: the reordering block runs on every PUT.
AlwaysReorder(oldStatus, oldPosition, update) == TRUE

\* Mutant of NeedsReorder: a change of position alone does not reorder.
NeedsReorderStatusOnly(oldStatus, oldPosition, update) == oldStatus # update.status

\* PUT handler: the guard of the reordering block.
NeedsReorder(oldStatus, oldPosition, update) ==
    oldStatus # update.status \/ oldPosition # update.position

\* Mutant of Others: the status test is dropped.
OthersAnyStatus(cards, id, status) == SelectSeq(cards, LAMBDA cc : cc.id # id)

\* PUT handler: the other cards of the target column, in storage order.
Others(cards, id, status) ==
    SelectSeq(cards, LAMBDA cc : cc.id # id /\ cc.status = status)

\* Mutant of Clamp: a position beyond the column goes to the front.
ClampHighToFront(position, n) ==
    IF position < 0 THEN 0 ELSE IF position > n THEN 0 ELSE position

\* PUT handler: the requested position clamped into 0 .. len(others).
Clamp(position, n) ==
    IF position < 0 THEN 0 ELSE IF position > n THEN n ELSE position

\* PUT handler: others[:pos], the moving card, others[pos:].
NewOrder(others, movingCard, pos) ==
    SubSeq(others, 1, pos) \o <<movingCard>> \o SubSeq(others, pos + 1, Len(others))

\* Mutant of Reassign: positions are counted from 1.
ReassignOneBased(cards, newOrder, status) ==
    [j \in 1 .. Len(cards) |->
        LET hits == {i \in 1 .. Len(newOrder) : newOrder[i].id = cards[j].id}
        IN  IF hits = {} THEN cards[j]
            ELSE [cards[j] EXCEPT !.position = Max(hits), !.status = status]]

\* PUT handler: the nested loops that write Position = i and the target
\* status into every board card whose id occurs in newOrder; the loops run
\* i upwards, so the last occurrence of an id decides.
Reassign(cards, newOrder, status) ==
    [j \in 1 .. Len(cards) |->
        LET hits == {i \in 1 .. Len(newOrder) : newOrder[i].id = cards[j].id}
        IN  IF hits = {} THEN cards[j]
            ELSE [cards[j] EXCEPT !.position = Max(hits) - 1, !.status = status]]

\* PUT handler: the reordering block, on the board whose card already
\* carries the requested fields.
Reorder(cards, id, update) ==
    LET moveIdx == findCardIndex(cards, id)
        others == Others(cards, id, update.status)
        pos == Clamp(update.position, Len(others))
        movingCard == [cards[moveIdx + 1] EXCEPT !.status = update.status]
    IN  IF moveIdx = -1 THEN cards
        ELSE Reassign(cards, NewOrder(others, movingCard, pos), update.status)

\* PUT handler: the in-memory board before SaveBoard; only called when a
\* card with the id exists.
UpdateCard(cards, id, update) ==
    LET old == cards[findCardIndex(cards, id) + 1]
        replaced == ReplaceFields(cards, id, update)
    IN  IF NeedsReorder(old.status, old.position, update)
        THEN Reorder(replaced, id, update)
        ELSE replaced

\* PUT handler: updated stays false when no card has the id.
Updated(cards, id) == \E i \in 1 .. Len(cards) : cards[i].id = id

\* Mutant of DeleteCard: the cards that followed the deleted one in its
\* column move up by one position.
DeleteCardReindexing(cards, id) ==
    LET rest == SelectSeq(cards, LAMBDA c : c.id # id)
    IN  IF findCardIndex(cards, id) = -1 THEN cards
        ELSE LET gone == cards[findCardIndex(cards, id) + 1]
             IN  [i \in 1 .. Len(rest) |->
                    IF rest[i].status = gone.status /\ rest[i].position > gone.position
                    THEN [rest[i] EXCEPT !.position = @ - 1] ELSE rest[i]]

\* DELETE handler: newCards, every card whose id differs.
DeleteCard(cards, id) == SelectSeq(cards, LAMBDA c : c.id # id)

\* Mutant of DeleteNotFound: the not-found test is dropped.
DeleteNeverNotFound(cards, newCards) == FALSE

\* DELETE handler: the not-found test len(newCards) == countBefore.
DeleteNotFound(cards, newCards) == Len(newCards) = Len(cards)

\* ------------------------------------------------------------------ state
VARIABLES
    obj,    \* the S3 object board.json
    now,    \* the wall clock, in the unit generateID reads
    h,      \* per goroutine: the handler it runs, its request, its board
    resp,   \* per goroutine: the status of its last request, 0 while in flight
    last    \* the request that finished last

vars == <<obj, now, h, resp, last>>

\* A goroutine that runs no handler.
Idle ==
    [pc |-> "idle", method |-> "", id |-> "", body |-> NoBody, board |-> <<>>,
     ops |-> <<>>]

\* Record of a finished request: its method and URL id, its decoded body
\* (kept only for a request that saved), the calls it made to the store
\* layer in the order it made them, whether LoadBoard returned a board
\* and that board, the object as it was when the handler finished, whether
\* the handler's PutObject was acknowledged, and the status it answered.
Finished(method, id, body, ops, loaded, before, saved, status) ==
    [method |-> method, id |-> id, body |-> IF saved THEN body ELSE NoBody,
     ops |-> ops, loaded |-> loaded, before |-> before, overwritten |-> obj,
     saved |-> saved, status |-> status]

Init ==
    /\ obj = Absent
    /\ now = 1
    /\ h = [p \in Procs |-> Idle]
    /\ resp = [p \in Procs |-> 0]
    /\ last = [method |-> "", id |-> "", body |-> NoBody, ops |-> <<>>,
               loaded |-> FALSE,
               before |-> <<>>, overwritten |-> Absent, saved |-> FALSE,
               status |-> 0]

\* Ids a client may put in the URL: those of the stored cards, and one that
\* generateID never produced.
KnownIds == {LoadBoard(obj)[i].id : i \in 1 .. Len(LoadBoard(obj))}
UrlIds == KnownIds \cup {"0"}

\* The wall clock has advanced when a PutObject is acknowledged.
Elapse(limit) == now < limit /\ now' = now + 1

\* ------------------------------------------- requests served one at a time
\* GET /api/board: LoadBoard, then 200 with the board, or 500.
Get(ok) ==
    /\ ok => ~UnmarshalFails(obj)
    /\ last' = Finished("GET", "", NoBody, <<"LoadBoard">>, ok, IF ok THEN LoadBoard(obj) ELSE <<>>,
                        FALSE, IF ok THEN 200 ELSE 500)
    /\ UNCHANGED <<obj, now, h, resp>>

\* POST and PUT: the body does not decode, 400 before any store operation.
BadBody(method) ==
    /\ last' = Finished(method, "", NoBody, <<>>, FALSE, <<>>, FALSE, 400)
    /\ UNCHANGED <<obj, now, h, resp>>

\* POST, PUT, DELETE: LoadBoard fails, 500.
LoadFail(method) ==
    /\ last' = Finished(method, "", NoBody, <<"LoadBoard">>, FALSE, <<>>, FALSE, 500)
    /\ UNCHANGED <<obj, now, h, resp>>

\* POST /api/card, LoadBoard and SaveBoard succeeding: 200.
Post(card, limit) ==
    /\ ~UnmarshalFails(obj)
    /\ Len(LoadBoard(obj)) < MaxCards
    /\ Elapse(limit)
    /\ obj' = SaveBoard(obj, CreateCard(LoadBoard(obj), card, generateID(now)))
    /\ last' = Finished("POST", "", card, <<"LoadBoard", "SaveBoard">>, TRUE, LoadBoard(obj),
                        TRUE, 200)
    /\ UNCHANGED <<h, resp>>

\* PUT /api/card/{id}, LoadBoard succeeding: 404 when no card has the id,
\* otherwise SaveBoard succeeds, 204.
Put(id, update, limit) ==
    /\ ~UnmarshalFails(obj)
    /\ IF ~Updated(LoadBoard(obj), id)
       THEN /\ last' = Finished("PUT", id, update, <<"LoadBoard">>, TRUE,
                                LoadBoard(obj), FALSE, 404)
            /\ UNCHANGED <<obj, now>>
       ELSE /\ Elapse(limit)
            /\ obj' = SaveBoard(obj, UpdateCard(LoadBoard(obj), id, update))
            /\ last' = Finished("PUT", id, update, <<"LoadBoard", "SaveBoard">>, TRUE,
                                LoadBoard(obj), TRUE, 204)
    /\ UNCHANGED <<h, resp>>

\* DELETE /api/card/{id}, LoadBoard succeeding: 404 when no card has the
\* id, otherwise SaveBoard succeeds, 204.
Delete(id, limit) ==
    /\ ~UnmarshalFails(obj)
    /\ IF DeleteNotFound(LoadBoard(obj), DeleteCard(LoadBoard(obj), id))
       THEN /\ last' = Finished("DELETE", id, NoBody, <<"LoadBoard">>, TRUE,
                                LoadBoard(obj), FALSE, 404)
            /\ UNCHANGED <<obj, now>>
       ELSE /\ Elapse(limit)
            /\ obj' = SaveBoard(obj, DeleteCard(LoadBoard(obj), id))
            /\ last' = Finished("DELETE", id, NoBody, <<"LoadBoard", "SaveBoard">>, TRUE,
                                LoadBoard(obj), TRUE, 204)
    /\ UNCHANGED <<h, resp>>

\* POST, or PUT and DELETE of the id of a stored card: LoadBoard succeeds,
\* the handler reaches SaveBoard, SaveBoard fails, 500.
SaveFail(method, id) ==
    /\ ~UnmarshalFails(obj)
    /\ method = "POST" <=> id = ""
    /\ last' = Finished(method, id, NoBody, <<"LoadBoard", "SaveBoard">>, TRUE,
                        LoadBoard(obj), FALSE, 500)
    /\ UNCHANGED <<obj, now, h, resp>>

\* The requests, served up to the clock reading limit.
Serve(limit) ==
    \/ \E ok \in BOOLEAN : Get(ok)
    \/ \E m \in {"POST", "PUT"} : BadBody(m)
    \/ \E m \in {"POST", "PUT", "DELETE"} : LoadFail(m)
    \/ \E card \in PostBodies : Post(card, limit)
    \/ \E id \in UrlIds, update \in PutBodies : Put(id, update, limit)
    \/ \E id \in UrlIds : Delete(id, limit)
    \/ \E m \in {"POST", "PUT", "DELETE"}, id \in KnownIds \cup {""} : SaveFail(m, id)

Next == Serve(MaxClock)

\* Requests arrive one after the other.
Spec == Init /\ [][Next]_vars

NextLong == Serve(MaxClockLong)

\* The same, observed for one more save.
SpecLong == Init /\ [][NextLong]_vars

\* Something other than the server overwrites board.json with bytes that do
\* not parse.
Tamper ==
    /\ obj.kind # "garbage"
    /\ obj' = Garbage
    /\ UNCHANGED <<now, h, resp, last>>

NextTampered == Serve(MaxClock) \/ Tamper

\* Requests arrive one after the other on a bucket that others write to.
Tampered == Init /\ [][NextTampered]_vars

\* Status strings of well-formed bodies that name no column: some other
\* word, and the empty string of a body without the member.
OtherStatuses == {"Later", ""}

\* Well-formed bodies with such a status.
PostBodiesOther == {Card(i, "t1", "d1", s, -1) : i \in BodyIds, s \in OtherStatuses}
PutBodiesOther == {Card(i, "t2", "d2", s, 0) : i \in BodyIds, s \in OtherStatuses}

NextAnyStatus ==
    \/ Serve(MaxClock)
    \/ \E card \in PostBodiesOther : Post(card, MaxClock)
    \/ \E id \in UrlIds, update \in PutBodiesOther : Put(id, update, MaxClock)

\* Requests arrive one after the other, with any string for a status.
AnyStatus == Init /\ [][NextAnyStatus]_vars

\* Documents that parse, as any program may have stored them: up to
\* MaxDocLen cards, ids possibly repeated, positions of any sign, and
\* possibly a sixth member that Card does not declare.
StoredCards ==
    {<<i, "t1", "d1", s, p>> : i \in {"1", "2"}, s \in Statuses, p \in -1 .. 1}
        \cup {<<i, "t1", "d1", s, p, "x">> :
                  i \in {"1", "2"}, s \in Statuses, p \in -1 .. 1}
StoredBodies == UNION {[1 .. n -> StoredCards] : n \in 0 .. MaxDocLen}

InitStored ==
    /\ obj \in {Document(b) : b \in StoredBodies}
    /\ now = 1
    /\ h = [p \in Procs |-> Idle]
    /\ resp = [p \in Procs |-> 0]
    /\ last = [method |-> "", id |-> "", body |-> NoBody, ops |-> <<>>,
               loaded |-> FALSE, before |-> <<>>, overwritten |-> Absent,
               saved |-> FALSE, status |-> 0]

\* SaveBoard of the board LoadBoard returned, nothing done to it in between.
Resave ==
    /\ ~UnmarshalFails(obj)
    /\ Elapse(MaxClock)
    /\ obj' = SaveBoard(obj, LoadBoard(obj))
    /\ last' = Finished("resave", "", NoBody, <<"LoadBoard", "SaveBoard">>, TRUE,
                        LoadBoard(obj), TRUE, 0)
    /\ UNCHANGED <<h, resp>>

\* LoadBoard and SaveBoard on the documents of other programs.
RoundTrip == InitStored /\ [][Resave]_vars

\* ------------------------------------------------ requests served concurrently
\* net/http runs every handler in its own goroutine; the handlers share
\* nothing but the object.  A handler takes one step per store operation
\* and one step for the clock reading of generateID.

\* PUT bodies of the overlapping requests: to the front of either column.
PutBodiesConc == {b \in PutBodies : b.position = 0}

\* The requests that go on to LoadBoard: method, URL id, decoded body.
RequestsWith(bodies) ==
    {<<"POST", "", b>> : b \in PostBodies}
        \cup {<<"PUT", i, b>> : i \in UrlIds, b \in bodies}
        \cup {<<"DELETE", i, NoBody>> : i \in UrlIds}

Requests == RequestsWith(PutBodiesConc)

\* Whether a handler that loaded cards answers 404 instead of reaching
\* SaveBoard.
NotFound(method, id, cards) ==
    \/ method = "PUT" /\ ~Updated(cards, id)
    \/ method = "DELETE" /\ DeleteNotFound(cards, DeleteCard(cards, id))

\* The status of a request that saved.
SuccessStatus(method) == IF method = "POST" THEN 200 ELSE 204

\* GET /api/board in goroutine p.
HandleGet(p, ok) ==
    /\ h[p].pc = "idle"
    /\ ok => ~UnmarshalFails(obj)
    /\ resp' = [resp EXCEPT ![p] = IF ok THEN 200 ELSE 500]
    /\ last' = Finished("GET", "", NoBody, <<"LoadBoard">>, ok, IF ok THEN LoadBoard(obj) ELSE <<>>,
                        FALSE, IF ok THEN 200 ELSE 500)
    /\ UNCHANGED <<obj, now, h>>

\* POST and PUT in goroutine p: the body does not decode.
HandleBadBody(p, method) ==
    /\ h[p].pc = "idle"
    /\ resp' = [resp EXCEPT ![p] = 400]
    /\ last' = Finished(method, "", NoBody, <<>>, FALSE, <<>>, FALSE, 400)
    /\ UNCHANGED <<obj, now, h>>

\* POST, PUT, DELETE in goroutine p: body decoded, LoadBoard succeeds.
HandleLoad(p, req) ==
    /\ h[p].pc = "idle"
    /\ ~UnmarshalFails(obj)
    /\ req[1] = "POST" => Len(LoadBoard(obj)) < MaxCards
    /\ ~NotFound(req[1], req[2], LoadBoard(obj))
    /\ h' = [h EXCEPT ![p] = [pc |-> IF req[1] = "POST" THEN "loaded" ELSE "ready",
                              method |-> req[1], id |-> req[2], body |-> req[3],
                              board |-> LoadBoard(obj), ops |-> <<"LoadBoard">>]]
    /\ resp' = [resp EXCEPT ![p] = 0]
    /\ UNCHANGED <<obj, now, last>>

\* POST, PUT, DELETE in goroutine p: LoadBoard fails.
HandleLoadFail(p, method) ==
    /\ h[p].pc = "idle"
    /\ resp' = [resp EXCEPT ![p] = 500]
    /\ last' = Finished(method, "", NoBody, <<"LoadBoard">>, FALSE, <<>>, FALSE, 500)
    /\ UNCHANGED <<obj, now, h>>

\* Mutant of HandleGenerate: the handler goes on only while no other
\* handler is between its LoadBoard and its SaveBoard.
HandleGenerateExclusive(p) ==
    /\ h[p].pc = "loaded"
    /\ \A q \in Procs \ {p} : h[q].pc = "idle"
    /\ h' = [h EXCEPT ![p].pc = "ready", ![p].body.id = generateID(now)]
    /\ UNCHANGED <<obj, now, resp, last>>

\* POST in goroutine p: card.ID = generateID().
HandleGenerate(p) ==
    /\ h[p].pc = "loaded"
    /\ h' = [h EXCEPT ![p].pc = "ready", ![p].body.id = generateID(now)]
    /\ UNCHANGED <<obj, now, resp, last>>

\* The board goroutine p holds in memory when it reaches SaveBoard.
Mutated(p) ==
    IF h[p].method = "POST" THEN CreateCard(h[p].board, h[p].body, h[p].body.id)
    ELSE IF h[p].method = "PUT" THEN UpdateCard(h[p].board, h[p].id, h[p].body)
    ELSE DeleteCard(h[p].board, h[p].id)

\* PUT and DELETE in goroutine p: LoadBoard succeeds and no card has the
\* id, 404 with no further store operation.
HandleNotFound(p, req) ==
    /\ h[p].pc = "idle"
    /\ ~UnmarshalFails(obj)
    /\ NotFound(req[1], req[2], LoadBoard(obj))
    /\ resp' = [resp EXCEPT ![p] = 404]
    /\ last' = Finished(req[1], req[2], req[3], <<"LoadBoard">>, TRUE, LoadBoard(obj),
                        FALSE, 404)
    /\ UNCHANGED <<obj, now, h>>

\* POST, PUT, DELETE in goroutine p: the mutation, then SaveBoard succeeds.
HandleSaveWithin(p, limit) ==
    /\ h[p].pc = "ready"
    /\ Elapse(limit)
    /\ obj' = SaveBoard(obj, Mutated(p))
    /\ h' = [h EXCEPT ![p] = Idle]
    /\ resp' = [resp EXCEPT ![p] = SuccessStatus(h[p].method)]
    /\ last' = Finished(h[p].method, h[p].id, h[p].body,
                        Append(h[p].ops, "SaveBoard"), TRUE, h[p].board, TRUE,
                        SuccessStatus(h[p].method))

\* Mutant of HandleSaveFail: the handler calls SaveBoard again.
HandleSaveFailRetrying(p) ==
    /\ h[p].pc = "ready"
    /\ Len(h[p].ops) < 3
    /\ h' = [h EXCEPT ![p].ops = Append(@, "SaveBoard")]
    /\ UNCHANGED <<obj, now, resp, last>>

HandleSave(p) == HandleSaveWithin(p, MaxClockConc)

\* POST, PUT, DELETE in goroutine p: the mutation, then SaveBoard fails.
HandleSaveFail(p) ==
    /\ h[p].pc = "ready"
    /\ h' = [h EXCEPT ![p] = Idle]
    /\ resp' = [resp EXCEPT ![p] = 500]
    /\ last' = Finished(h[p].method, h[p].id, h[p].body,
                        Append(h[p].ops, "SaveBoard"), TRUE, h[p].board, FALSE, 500)
    /\ UNCHANGED <<obj, now>>

NextConc ==
    \E p \in Procs :
        \/ \E ok \in BOOLEAN : HandleGet(p, ok)
        \/ \E m \in {"POST", "PUT"} : HandleBadBody(p, m)
        \/ \E req \in Requests : HandleLoad(p, req)
        \/ \E m \in {"POST", "PUT", "DELETE"} : HandleLoadFail(p, m)
        \/ HandleGenerate(p)
        \/ \E req \in Requests : HandleNotFound(p, req)
        \/ HandleSave(p)
        \/ HandleSaveFail(p)

\* Requests overlap.
Conc == Init /\ [][NextConc]_vars

\* The steps of the handler that goroutine p runs.
Step(p) == HandleGenerate(p) \/ HandleSave(p) \/ HandleSaveFail(p)

\* The requests of Conc that name the column ToDo or carry no body.
FairRequests == {r \in Requests : r[3].status \in {"", "ToDo"}}

NextFair ==
    \E p \in Procs :
        \/ \E ok \in BOOLEAN : HandleGet(p, ok)
        \/ \E m \in {"POST", "PUT"} : HandleBadBody(p, m)
        \/ \E req \in FairRequests : HandleLoad(p, req)
        \/ \E m \in {"POST", "PUT", "DELETE"} : HandleLoadFail(p, m)
        \/ HandleGenerate(p)
        \/ \E req \in FairRequests : HandleNotFound(p, req)
        \/ HandleSave(p)
        \/ HandleSaveFail(p)

\* Requests overlap; the scheduler runs every goroutine, and every store
\* operation returns, with an answer or with the error of its timeout.
ConcFair == Init /\ [][NextFair]_vars /\ \A p \in Procs : WF_vars(Step(p))

\* PUT bodies of the overlapping moves: to the second position of ToDo, and
\* to a position below the column Doing.
MoveBodies ==
    {b \in PutBodies :
        (b.status = "ToDo" /\ b.position = 1) \/ (b.status = "Doing" /\ b.position = -1)}

\* The requests of well-formed body that address a stored card or create one.
MoveRequests == {r \in RequestsWith(MoveBodies) : r[2] # "0"}

\* The state after two POSTs of ToDo cards served one after the other.
InitMoves ==
    /\ obj = SaveBoard(Absent,
                       CreateCard(CreateCard(<<>>, Card("0", "t1", "d1", "ToDo", -1),
                                             generateID(1)),
                                  Card("0", "t1", "d1", "ToDo", -1), generateID(2)))
    /\ now = 3
    /\ h = [p \in Procs |-> Idle]
    /\ resp = [p \in Procs |-> 0]
    /\ last = [method |-> "", id |-> "", body |-> NoBody, ops |-> <<>>,
               loaded |-> FALSE, before |-> <<>>, overwritten |-> Absent,
               saved |-> FALSE, status |-> 0]

\* The handlers that go on to SaveBoard, on the requests MoveRequests; none
\* starts at the last clock reading observed.
NextMoves ==
    \E p \in Procs :
        \/ \E req \in MoveRequests : now < MaxClockMoves /\ HandleLoad(p, req)
        \/ HandleGenerate(p)
        \/ HandleSaveWithin(p, MaxClockMoves)
        \/ HandleSaveFail(p)

\* Requests overlap on a board that holds a column of two cards.
ConcMoves == InitMoves /\ [][NextMoves]_vars

\* ----------------------------------------------------------------- claims
\* Vocabulary of the properties.
After == LoadBoard(obj)
Ids(cards) == {cards[i].id : i \in 1 .. Len(cards)}
Column(cards, status) == {i \in 1 .. Len(cards) : cards[i].status = status}
ColumnPositions(cards, status) == {cards[i].position : i \in Column(cards, status)}
CardOf(cards, id) == cards[findCardIndex(cards, id) + 1]
UniqueIds(cards) == Cardinality(Ids(cards)) = Len(cards)

\* The positions of the column are exactly 0 .. k-1 for its k cards.
DenseColumn(cards, status) ==
    ColumnPositions(cards, status) = 0 .. Cardinality(Column(cards, status)) - 1

\* The cards of the column other than card id.
OthersOf(cards, id, status) ==
    {i \in Column(cards, status) : cards[i].id # id}

\* The last request was a PUT that saved; Old is the card it addressed, as
\* loaded.
PutSaved == last.method = "PUT" /\ last.saved
Old == CardOf(last.before, last.id)
\* ... and it asked for another status or another position than the card had.
Moved ==
    PutSaved /\ (Old.status # last.body.status \/ Old.position # last.body.position)
\* ... and it asked for the status and the position the card had.
NoOp ==
    PutSaved /\ Old.status = last.body.status /\ Old.position = last.body.position

\* min(max(p, 0), n)
Saturate(p, n) == IF p < 0 THEN 0 ELSE IF p > n THEN n ELSE p

\* C1 -- dense ordering: in every board reachable through successful POST,
\* PUT and DELETE requests, the positions of every status present are
\* exactly 0 .. k-1.
C1_DenseOrdering ==
    \A i \in 1 .. Len(After) : DenseColumn(After, After[i].status)

\* C2 -- order-preserving splice: after a PUT that moves card c into status
\* T, the other cards of T are in the same relative order by ascending
\* position as before, and c sits at the clamped index.
C2_OrderPreservingSplice ==
    Moved =>
        LET T == last.body.status
            oth == OthersOf(last.before, last.id, T)
        IN  /\ \A i, j \in oth :
                 last.before[i].position < last.before[j].position
                    => CardOf(After, last.before[i].id).position
                         < CardOf(After, last.before[j].id).position
            /\ CardOf(After, last.id).position
                 = Saturate(last.body.position, Cardinality(oth))

\* C3 -- clamp idempotence: on every reachable board, for every card c and
\* target status T with k other cards, a PUT with a position below 0 gives
\* the board of the PUT with position 0, and a PUT with a position above k
\* gives the board of the PUT with position k.
C3_ClampIdempotence ==
    \A id \in Ids(After), update \in PutBodies :
        LET k == Cardinality(OthersOf(After, id, update.status))
        IN  /\ update.position < 0 =>
                 UpdateCard(After, id, update)
                    = UpdateCard(After, id, [update EXCEPT !.position = 0])
            /\ update.position > k =>
                 UpdateCard(After, id, update)
                    = UpdateCard(After, id, [update EXCEPT !.position = k])

\* C4 -- no-op stability: a PUT whose status and position are those the
\* card has replaces the card's title and description and changes nothing
\* else on the board.
C4_NoOpStability ==
    NoOp =>
        /\ Len(After) = Len(last.before)
        /\ \A i \in 1 .. Len(After) :
             After[i] = IF last.before[i].id = last.id
                        THEN [last.before[i] EXCEPT
                                !.title = last.body.title,
                                !.description = last.body.description]
                        ELSE last.before[i]

\* C4 happens: a no-op PUT replaced a title on a board with other cards, in
\* a column with a gap that a reordering would have closed.
C4_Witness ==
    /\ NoOp
    /\ Old.title # last.body.title
    /\ Len(last.before) > 1
    /\ ~DenseColumn(last.before, Old.status)

\* C5 -- append on create: a POST that saved appended one card, with the
\* body's title, description and status, at position p+1 for p the largest
\* position of that status (0 when the status had no card), with an id and
\* a position that are not the body's; the cards loaded are unchanged.
C5_AppendOnCreate ==
    (last.method = "POST" /\ last.saved) =>
        LET n == Len(last.before)
            new == After[n + 1]
            col == ColumnPositions(last.before, last.body.status)
        IN  /\ Len(After) = n + 1
            /\ \A i \in 1 .. n : After[i] = last.before[i]
            /\ new.title = last.body.title
            /\ new.description = last.body.description
            /\ new.status = last.body.status
            /\ new.position = IF col = {} THEN 0 ELSE Max(col) + 1
            /\ new.id # last.body.id
            /\ new.position # last.body.position

\* C5 happens: a card was appended to a column that held cards, while a
\* card of another column had a larger position.
C5_Witness ==
    /\ last.method = "POST" /\ last.saved
    /\ LET col == ColumnPositions(last.before, last.body.status)
       IN  /\ col # {}
           /\ \E i \in 1 .. Len(last.before) : last.before[i].position > Max(col)

\* C6 -- not found: a PUT or DELETE whose id matches no card of the loaded
\* board answers 404 and does not save; the object is as it was.
C6_NotFoundUnchanged ==
    (last.method \in {"PUT", "DELETE"} /\ last.loaded /\ last.id \notin Ids(last.before)) =>
        /\ last.status = 404
        /\ ~last.saved
        /\ obj = last.overwritten

\* C6 happens: a DELETE of an unknown id on a board with cards.
C6_Witness ==
    /\ last.method = "DELETE" /\ last.status = 404
    /\ last.before # <<>>

\* C9 -- destination made dense: after a PUT that asked for another status
\* or position than the card had, the positions of the requested status are
\* exactly 0 .. k-1, whatever gaps the column had.
C9_DestinationDense ==
    Moved => DenseColumn(After, last.body.status)

\* C9 happens: a card was moved into a column that held other cards and
\* had a gap.
C9_Witness ==
    /\ Moved
    /\ OthersOf(last.before, last.id, last.body.status) # {}
    /\ ~DenseColumn(last.before, last.body.status)
    /\ Old.status # last.body.status

\* C10 -- saturating placement: after such a PUT the card has the requested
\* status and the position min(max(p, 0), n), n the number of other cards of
\* that status; a PUT of a known id is never refused (it answers 204, or 500
\* when the store fails), so a move into an empty column stores position 0.
C10_SaturatingPlacement ==
    /\ Moved =>
         LET n == Cardinality(OthersOf(last.before, last.id, last.body.status))
             c == CardOf(After, last.id)
         IN  /\ c.status = last.body.status
             /\ c.position = Saturate(last.body.position, n)
             /\ n = 0 => c.position = 0
    /\ (last.method = "PUT" /\ last.loaded /\ last.id \in Ids(last.before)) =>
         /\ last.status \in {204, 500}
         /\ last.saved <=> last.status = 204

\* C10 happens: a card was moved to a position beyond an empty column.
C10_Witness ==
    /\ Moved
    /\ Old.status # last.body.status
    /\ OthersOf(last.before, last.id, last.body.status) = {}
    /\ last.body.position > 0
    /\ Len(last.before) > 1

\* C7 -- lost update: when requests overlap, a request that loaded before
\* another one saved still saves and answers success, and the object then
\* holds its own board only: the cards it loaded and its own change, none of
\* what was saved in between.
C7_LostUpdate ==
    last.saved =>
        /\ last.status = SuccessStatus(last.method)
        /\ \A i \in 1 .. Len(After) :
             \/ After[i].id \in Ids(last.before)
             \/ last.method = "POST" /\ After[i].id = last.body.id

\* C7 happens: both goroutines answered success, and the save of the last
\* one dropped a card the other had saved after the last one loaded.
C7_Witness ==
    /\ last.saved
    /\ \A p \in Procs : resp[p] \in {200, 204}
    /\ \E i \in 1 .. Len(LoadBoard(last.overwritten)) :
         /\ LoadBoard(last.overwritten)[i].id \notin Ids(last.before)
         /\ LoadBoard(last.overwritten)[i].id \notin Ids(After)

\* C8 -- id uniqueness: the ids of the stored cards are pairwise distinct,
\* whether requests overlap or not; POST stores the id generateID gave it
\* after LoadBoard, PUT keeps the ids as they are, DELETE removes the ids
\* equal to the URL id and adds none.
C8_UniqueIds ==
    /\ UniqueIds(After)
    /\ (last.saved /\ last.method = "POST") =>
         /\ After[Len(After)].id = last.body.id
         /\ last.body.id \notin Ids(last.before)
    /\ (last.saved /\ last.method = "PUT") =>
         /\ Len(After) = Len(last.before)
         /\ \A i \in 1 .. Len(After) : After[i].id = last.before[i].id
    /\ (last.saved /\ last.method = "DELETE") =>
         /\ Len(After) < Len(last.before)
         /\ Ids(After) = Ids(last.before) \ {last.id}

\* C8 happens: two cards are stored while a concurrent POST holds the clock
\* reading one of them was given.
C8_Witness ==
    /\ Len(After) = 2
    /\ last.saved /\ last.method = "POST"
    /\ \E p \in Procs :
         /\ h[p].pc = "ready" /\ h[p].method = "POST"
         /\ h[p].body.id \in Ids(After)

\* C11 -- absent versus corrupt document: LoadBoard on the absent object
\* returns the empty board and nothing is written (GET answers 200 with no
\* cards); on a document that does not parse every handler that reaches
\* LoadBoard answers 500, has no board and does not save.
C11_AbsentVersusCorrupt ==
    /\ (last.loaded /\ last.overwritten = Absent) => last.before = <<>>
    /\ (last.method = "GET" /\ last.loaded /\ last.overwritten = Absent) =>
         /\ last.status = 200
         /\ ~last.saved
    /\ (last.method # "" /\ last.status # 400 /\ last.overwritten = Garbage) =>
         /\ last.status = 500
         /\ ~last.loaded
         /\ ~last.saved
         /\ obj = Garbage

\* C11 happens: a DELETE found a document that does not parse.
C11_Witness ==
    /\ last.method = "DELETE"
    /\ last.overwritten = Garbage
    /\ last.status = 500

\* The number of calls of a store function among the calls of a request.
Calls(ops, f) == Cardinality({i \in 1 .. Len(ops) : ops[i] = f})

CardData(o) == [i \in 1 .. Len(o.body) |-> SubSeq(o.body[i], 1, 5)]

C14_MoveFrame ==
    Moved =>
        /\ Len(After) = Len(last.before)
        /\ \A i \in 1 .. Len(last.before) :
             (last.before[i].id # last.id /\ last.before[i].status # last.body.status)
                => After[i] = last.before[i]

\* C14 happens: the card at position 0 of a column of two was moved to
\* another column, and the card left behind still has position 1.
C14_Witness ==
    /\ Moved
    /\ Old.status # last.body.status
    /\ Old.position = 0
    /\ Cardinality(Column(last.before, Old.status)) = 2
    /\ ColumnPositions(After, Old.status) = {1}

\* C15 -- frame of delete: a DELETE that saved removed the card with the
\* id and no other; the remaining cards are as they were, in the order they
\* were stored in, so the vacated column is not renumbered.
C15_DeleteFrame ==
    (last.method = "DELETE" /\ last.saved) =>
        /\ After = SelectSeq(last.before, LAMBDA c : c.id # last.id)
        /\ Len(After) = Len(last.before) - 1
        /\ last.id \notin Ids(After)

\* C15 happens: the first of three stored cards was deleted, from position
\* 0 of a column that held another card, which keeps position 1.
C15_Witness ==
    /\ last.method = "DELETE" /\ last.saved
    /\ Len(last.before) = 3
    /\ last.before[1].id = last.id
    /\ last.before[1].position = 0
    /\ ColumnPositions(After, last.before[1].status) = {1}

\* The boards that one create, one update or one delete makes of a board.
OneChange(cards) ==
    {CreateCard(cards, c, generateID(t)) : c \in PostBodies, t \in 1 .. MaxClockConc}
        \cup {UpdateCard(cards, i, u) : i \in Ids(cards), u \in PutBodies}
        \cup {DeleteCard(cards, i) : i \in Ids(cards)}

\* C16 -- writes are whole-board and derive from one snapshot: the board a
\* handler holds is the content the object had when the handler loaded it
\* and stays that board until the handler ends; every write to the object
\* is made by one handler and stores exactly one create, update or delete
\* applied to that handler's board, nothing of the content it overwrites
\* and nothing of another handler's board.
C16_SnapshotWrites ==
    [][/\ \A p \in Procs :
            /\ (h[p].pc = "idle" /\ h'[p].pc # "idle") => h'[p].board = LoadBoard(obj)
            /\ (h[p].pc # "idle" /\ h'[p].pc # "idle") => h'[p].board = h[p].board
       /\ (obj' # obj \/ now' # now) =>
            \E p \in Procs :
                /\ h[p].pc = "ready" /\ h'[p].pc = "idle"
                /\ \A q \in Procs \ {p} : h'[q] = h[q]
                /\ obj'.kind = "json"
                /\ LoadBoard(obj') \in OneChange(h[p].board)
                /\ Marshal(LoadBoard(obj')) = obj'.body]_vars

\* C16 happens: a handler wrote the change it made to a board that was no
\* longer the content of the object, while the other handler holds a board
\* that is not the content either.
C16_Witness ==
    /\ last.saved
    /\ last.before # LoadBoard(last.overwritten)
    /\ \E p \in Procs : h[p].pc = "ready" /\ h[p].board # After

\* No two cards of one status have the same position.
NoDuplicatePositions(cards) ==
    \A i, j \in 1 .. Len(cards) :
        (i # j /\ cards[i].status = cards[j].status)
            => cards[i].position # cards[j].position

\* C17 -- no duplicate positions within a column: in every stored board,
\* whether the requests that made it overlapped or not, no two cards of
\* the same status have the same position.
C17_NoDuplicatePositions == NoDuplicatePositions(After)

\* C17 happens: a PUT moved a card within or into a column that holds
\* another card, from a board that was no longer the stored one, and the
\* column has two cards at different positions.
C17_Witness ==
    /\ last.method = "PUT" /\ last.saved
    /\ last.before # LoadBoard(last.overwritten)
    /\ Old.status # last.body.status \/ Old.position # last.body.position
    /\ Cardinality(Column(After, last.body.status)) >= 2
    /\ NoDuplicatePositions(After)

\* C18 -- positions are never negative: every stored card has a position
\* >= 0; a PUT that asks for a negative position writes it into the card in
\* memory, and the card is stored at position 0.
C18_NonNegativePositions ==
    /\ \A i \in 1 .. Len(After) : After[i].position >= 0
    /\ (PutSaved /\ last.body.position < 0) =>
         /\ CardOf(ReplaceFields(last.before, last.id, last.body), last.id).position
              = last.body.position
         /\ CardOf(After, last.id).position = 0

\* C18 happens: a PUT asked for a negative position in the card's own
\* column, where the card was not first.
C18_Witness ==
    /\ PutSaved
    /\ last.body.position < 0
    /\ Old.status = last.body.status
    /\ Old.position > 0
    /\ OthersOf(last.before, last.id, Old.status) # {}

\* The columns of the board.
StatusSet == {"ToDo", "Doing", "Hold", "Done"}

\* C19 -- status stays in the fixed set: in every board stored through POST
\* and PUT requests with well-formed bodies, every card's status is one of
\* ToDo, Doing, Hold, Done.
C19_StatusInSet ==
    \A i \in 1 .. Len(After) : After[i].status \in StatusSet

\* The statuses a handler answers with.
Answers == {200, 204, 400, 404, 500}

\* C20 -- every request terminates with one response: provided every store
\* operation returns, a handler that has started ends and has then sent
\* one status of 200, 204, 400, 404, 500; it sends none before it ends, and
\* whatever the other handlers do, its next step can be taken.
C20_Terminates ==
    /\ [](\A p \in Procs :
            /\ h[p].pc # "idle" => resp[p] = 0
            /\ h[p].pc = "idle" => resp[p] \in Answers \cup {0}
            /\ h[p].pc # "idle" => ENABLED Step(p))
    /\ [][\A p \in Procs :
            h[p].pc # "idle" =>
                /\ resp'[p] # resp[p] <=> h'[p].pc = "idle"
                /\ h'[p].pc = "idle" => resp'[p] \in Answers]_vars
    /\ \A p \in Procs : []<>(h[p].pc = "idle")

\* C20 happens: a handler has answered 204 while the other one, started
\* before that answer, is still between its LoadBoard and its SaveBoard.
C20_Witness ==
    \E p, q \in Procs :
        /\ h[p].pc = "idle" /\ resp[p] = 204
        /\ h[q].pc = "loaded"
        /\ h[q].board # After

====
